---- MODULE Spec2Model ----
(***************************************************************************)
(* Model of the orchestration commands of w3cli (src/index.js):            *)
(*   list             - cursor pagination of the upload listing            *)
(*   remove           - upload removal with concurrent shard removal       *)
(*   createDelegation - export of a delegation as a CAR archive            *)
(*   usageReport      - nested account/subscription/space usage traversal  *)
(* Each command runs alone in one process invocation, so each has its own  *)
(* specification over the shared variable tuple.                           *)
(***************************************************************************)
EXTENDS Integers, Sequences, FiniteSets, TLC

\* ------------------------------------------------------------------ bounds
MaxCursors == 1
MaxItems == 1
MaxShards == 3
MaxBlocks == 3
MaxAccounts == 2
MaxSubs == 2
MaxConsumers == 2
MaxEntries == 2

\* ------------------------------------------------------------- JS values
Undefined == "undefined"
EmptyString == ""

\* JavaScript truthiness of a cursor value (a string or undefined).
Truthy(v) == v # Undefined /\ v # EmptyString

RECURSIVE Flatten(_)
Flatten(ss) == IF ss = <<>> THEN <<>> ELSE Head(ss) \o Flatten(Tail(ss))

\* ------------------------------------------------------------------ list
VARIABLES listPc, listOpts, server, res, count, requests, responses,
          stdout, inFlight

listVars == <<listPc, listOpts, server, res, count, requests, responses,
              stdout, inFlight>>

\* ---------------------------------------------------------------- remove
VARIABLES rmPc, rmIn, rmService, upload, uploadReqs, shardState, reported,
          rmLog, exitStatus, rmPeak

rmVars == <<rmPc, rmIn, rmService, upload, uploadReqs, shardState, reported,
            rmLog, exitStatus, rmPeak>>

\* ------------------------------------------------------ createDelegation
VARIABLES exPc, exIn, writerState, closeCalls, putCalls, putDone, outQueue,
          destState, destBytes

exVars == <<exPc, exIn, writerState, closeCalls, putCalls, putDone, outQueue,
            destState, destBytes>>

\* ----------------------------------------------------------- usageReport
VARIABLES usPc, usIn, ai, si, ci, ri, usReqs, usReplies, usInFlight, yielded,
          usOut, total

usVars == <<usPc, usIn, ai, si, ci, ri, usReqs, usReplies, usInFlight, yielded,
            usOut, total>>

vars == <<listVars, rmVars, exVars, usVars>>
notList == <<rmVars, exVars, usVars>>
notRemove == <<listVars, exVars, usVars>>
notExport == <<listVars, rmVars, usVars>>
notUsage == <<listVars, rmVars, exVars>>

CursorTokens == { ToString(i) : i \in 1..MaxCursors }
CursorValues == {Undefined, EmptyString} \cup CursorTokens
\* what a request may carry as its cursor
RequestCursors == CursorValues

\* The upload/list service: the page it answers a request cursor with.
\* A page holds n uploads and the cursor of the following page.
ServerPages == [n : 0..MaxItems, cursor : CursorValues]
Servers == [RequestCursors -> ServerPages]

\* the uploads of the page served for request cursor k, in server order
PageResults(k, n) == [i \in 1..n |-> <<k, i>>]

\* `let res` before the first response
NoRes == [present |-> FALSE, results |-> <<>>, cursor |-> Undefined]

\* res?.cursor
\* (faulty variant: the cursor of the last response is never passed on)
CursorOf_Never(r) == Undefined
\* res?.cursor
CursorOf(r) == IF r.present THEN r.cursor ELSE Undefined

\* guard of the fetches: an endless listing is cut after MaxFetches requests
MaxFetches == MaxCursors + 3

\* uploadListResponseToString(res, opts): one line per upload, in order
uploadListResponseToString(r, opts) == r.results

\* faulty variants of the loop condition
ListContinue_ItemsOnly(r) == Len(r.results) > 0
ListContinue_CursorOnly(r) == Truthy(r.cursor)
ListContinue_Negated(r) == ~Truthy(r.cursor) /\ Len(r.results) > 0
ListContinue_Unconditional(r) == TRUE

\* while (res.cursor && res.results.length)
ListContinue(r) == Truthy(r.cursor) /\ Len(r.results) > 0

\* (faulty variant: a failed fetch is tried again)
AfterFetchFailure_Retry == "request"
\* the rejection, or the `throw` of line 172, is not caught inside list
AfterFetchFailure == "threw"

\* (faulty variant: the notice does not look at --json)
ListNotice_IgnoresJson(c, opts) == c = 0
\* count === 0 && !opts.json
ListNotice(c, opts) == c = 0 /\ ~opts.json

\* the command is not the one being run
IdleList ==
    /\ listPc = "idle"
    /\ listOpts = [json |-> FALSE, shards |-> FALSE]
    /\ server = [k \in RequestCursors |-> [n |-> 0, cursor |-> Undefined]]
    /\ res = NoRes
    /\ count = 0
    /\ requests = <<>>
    /\ responses = <<>>
    /\ stdout = <<>>
    /\ inFlight = 0

NoUpload == [root |-> FALSE, shards |-> Undefined, n |-> 0]

IdleRemove ==
    /\ rmPc = "idle"
    /\ rmIn = [cidValid |-> TRUE, shards |-> FALSE]
    /\ rmService = [throws |-> FALSE, upload |-> NoUpload, fails |-> {}]
    /\ upload = NoUpload
    /\ uploadReqs = 0
    /\ shardState = <<>>
    /\ reported = <<>>
    /\ rmLog = <<>>
    /\ exitStatus = <<>>
    /\ rmPeak = 0

IdleExport ==
    /\ exPc = "idle"
    /\ exIn = [space |-> TRUE, audience |-> TRUE, abilities |-> TRUE,
               issues |-> TRUE, output |-> "stdout", blocks |-> 1, bad |-> 0]
    /\ writerState = "none"
    /\ closeCalls = 0
    /\ putCalls = <<>>
    /\ putDone = <<>>
    /\ outQueue = <<>>
    /\ destState = "none"
    /\ destBytes = <<>>

IdleUsage ==
    /\ usPc = "idle"
    /\ usIn = [json |-> FALSE, accounts |-> 0, subs |-> 0, consumers |-> 0,
               entries |-> 0, size |-> 0, shape |-> "plain"]
    /\ ai = 0 /\ si = 0 /\ ci = 0 /\ ri = 0
    /\ usReqs = <<>>
    /\ usReplies = <<>>
    /\ usInFlight = 0
    /\ yielded = <<>>
    /\ usOut = <<>>
    /\ total = 0

InitList ==
    /\ IdleRemove
    /\ IdleExport
    /\ IdleUsage
    /\ listPc = "request"
    /\ listOpts \in [json : BOOLEAN, shards : BOOLEAN]
    /\ server \in Servers
    /\ res = NoRes
    /\ count = 0
    /\ requests = <<>>
    /\ responses = <<>>
    /\ stdout = <<>>
    /\ inFlight = 0

\* client.capability.upload.list({ cursor: res?.cursor }) is called
ListRequest ==
    /\ UNCHANGED notList
    /\ listPc = "request"
    /\ Len(requests) < MaxFetches
    /\ requests' = Append(requests, CursorOf(res))
    /\ inFlight' = inFlight + 1
    /\ listPc' = "await"
    /\ UNCHANGED <<listOpts, server, res, count, responses, stdout>>

\* the awaited call answers with a page: the rest of the loop body and the
\* loop condition
ListResponse ==
    /\ UNCHANGED notList
    /\ listPc = "await"
    /\ LET k == requests[Len(requests)]
           page == server[k]
           r == [present |-> TRUE, results |-> PageResults(k, page.n),
                 cursor |-> page.cursor]
       IN /\ res' = r
          /\ responses' = Append(responses, r)
          /\ count' = count + Len(r.results)
          /\ stdout' = IF Len(r.results) > 0
                       THEN Append(stdout, [kind |-> "uploads",
                                lines |-> uploadListResponseToString(r, listOpts)])
                       ELSE stdout
          /\ listPc' = IF ListContinue(r) THEN "request" ELSE "after"
    /\ inFlight' = inFlight - 1
    /\ UNCHANGED <<listOpts, server, requests>>

\* the awaited call rejects, or resolves to no response
\* (`if (!res) throw new Error('missing upload list response')`)
ListFetchFails ==
    /\ UNCHANGED notList
    /\ listPc = "await"
    /\ \E how \in {"rejected", "missing"} :
         /\ res' = NoRes
         /\ responses' = Append(responses, [present |-> FALSE, results |-> <<>>,
                                            cursor |-> how])
    /\ inFlight' = inFlight - 1
    /\ listPc' = AfterFetchFailure
    /\ UNCHANGED <<listOpts, server, count, requests, stdout>>

\* after the loop
ListFinish ==
    /\ UNCHANGED notList
    /\ listPc = "after"
    /\ stdout' = IF ListNotice(count, listOpts)
                 THEN stdout \o <<[kind |-> "notice", lines |-> <<"No uploads in space">>],
                                  [kind |-> "notice", lines |-> <<"Try out w3 up">>]>>
                 ELSE stdout
    /\ listPc' = "done"
    /\ UNCHANGED <<listOpts, server, res, count, requests, responses, inFlight>>

NextList ==
    \/ ListRequest
    \/ ListResponse
    \/ ListFetchFails
    \/ ListFinish

SpecList == InitList /\ [][NextList]_vars

\* ---------------------------------------------------------------- remove
\* What upload/remove may answer: an upload that was not found has neither
\* root nor shards; a removed upload has a root and, possibly, n shards
\* (shards[i] is identified by its position i).
UploadAnswers ==
    {NoUpload}
    \cup {[root |-> TRUE, shards |-> Undefined, n |-> 0]}
    \cup [root : {TRUE}, shards : {"list"}, n : 0..MaxShards]

\* (faulty variant: one request at a time, each awaited before the next)
ToIssue_OneAtATime(st) ==
    IF \E i \in DOMAIN st : st[i] = "pending" THEN {}
    ELSE LET idle == {i \in DOMAIN st : st[i] = "idle"}
         IN {i \in idle : \A j \in idle : i <= j}
\* the store/remove requests issued by shards.map(removeShard): every shard
ToIssue(st) == {i \in DOMAIN st : st[i] = "idle"}

\* (faulty variant: Promise.all, which settles on the first rejection)
AllSettled_FirstRejection(st) ==
    \/ \E i \in DOMAIN st : st[i] = "rejected"
    \/ \A i \in DOMAIN st : st[i] = "fulfilled"
\* Promise.allSettled: resolves once every promise is fulfilled or rejected
AllSettled(st) == \A i \in DOMAIN st : st[i] \in {"fulfilled", "rejected"}

\* (faulty variant: every instead of some)
SomeRejected_Every(st) == \A i \in DOMAIN st : st[i] = "rejected"
\* results.some((res) => res.status === 'rejected')
SomeRejected(st) == \E i \in DOMAIN st : st[i] = "rejected"

\* (faulty variant: the shards are removed whether --shards is given or not)
ShardsRequested_Always(opts) == TRUE
\* if (!opts.shards) return
ShardsRequested(opts) == opts.shards

\* (faulty variant: an empty shard list is not caught)
NoShards_UndefinedOnly(up) == up.shards = Undefined
\* if (!upload.shards || !upload.shards.length)
NoShards(up) == up.shards = Undefined \/ up.n = 0

InFlightShards(st) == Cardinality({i \in DOMAIN st : st[i] = "pending"})

InitRemove ==
    /\ IdleList
    /\ IdleExport
    /\ IdleUsage
    /\ rmPc = "parse"
    /\ rmIn \in [cidValid : BOOLEAN, shards : BOOLEAN]
    /\ \E up \in UploadAnswers :
         rmService \in [throws : BOOLEAN, upload : {up}, fails : SUBSET (1..up.n)]
    /\ upload = NoUpload
    /\ uploadReqs = 0
    /\ shardState = <<>>
    /\ reported = <<>>
    /\ rmLog = <<>>
    /\ exitStatus = <<>>
    /\ rmPeak = 0

\* root = CID.parse(rootCid.trim()), or the catch: process.exit(1)
RmParse ==
    /\ UNCHANGED notRemove
    /\ rmPc = "parse"
    /\ IF rmIn.cidValid
       THEN /\ rmPc' = "uploadRemove"
            /\ UNCHANGED <<rmLog, exitStatus>>
       ELSE /\ rmLog' = Append(rmLog, "is not a CID")
            /\ exitStatus' = <<1>>
            /\ rmPc' = "exited"
    /\ UNCHANGED <<rmIn, rmService, upload, uploadReqs, shardState, reported, rmPeak>>

\* client.capability.upload.remove(root) is called
RmUploadRemoveCall ==
    /\ UNCHANGED notRemove
    /\ rmPc = "uploadRemove"
    /\ uploadReqs' = uploadReqs + 1
    /\ rmPc' = "awaitUpload"
    /\ UNCHANGED <<rmIn, rmService, upload, shardState, reported, rmLog,
                   exitStatus, rmPeak>>

\* (faulty variant: the catch prints and remove goes on)
AfterUploadRemoveFails_GoOn == "checks"
\* the catch of the upload removal ends in process.exit(1)
AfterUploadRemoveFails == "exited"

\* the upload removal rejects: the catch prints and exits with 1
RmUploadRemoveThrows ==
    /\ UNCHANGED notRemove
    /\ rmPc = "awaitUpload"
    /\ rmService.throws
    /\ rmLog' = Append(rmLog, "Remove failed")
    /\ exitStatus' = <<1>>
    /\ rmPc' = AfterUploadRemoveFails
    /\ UNCHANGED <<rmIn, rmService, upload, uploadReqs, shardState, reported, rmPeak>>

\* the upload removal resolves
RmUploadRemoveReturns ==
    /\ UNCHANGED notRemove
    /\ rmPc = "awaitUpload"
    /\ ~rmService.throws
    /\ upload' = rmService.upload
    /\ rmPc' = "checks"
    /\ UNCHANGED <<rmIn, rmService, uploadReqs, shardState, reported, rmLog,
                   exitStatus, rmPeak>>

\* the three early returns, else the "removing n shards" line
RmChecks ==
    /\ UNCHANGED notRemove
    /\ rmPc = "checks"
    /\ IF ~ShardsRequested(rmIn)
       THEN /\ rmPc' = "done" /\ exitStatus' = <<0>>
            /\ UNCHANGED <<rmLog, shardState>>
       ELSE IF ~upload.root
       THEN /\ rmPc' = "done" /\ exitStatus' = <<0>>
            /\ rmLog' = Append(rmLog, "upload not found")
            /\ UNCHANGED shardState
       ELSE IF NoShards(upload)
       THEN /\ rmPc' = "done" /\ exitStatus' = <<0>>
            /\ rmLog' = Append(rmLog, "no shards to remove")
            /\ UNCHANGED shardState
       ELSE /\ rmPc' = "fanout"
            /\ rmLog' = Append(rmLog, "removing shards")
            /\ shardState' = [i \in 1..upload.n |-> "idle"]
            /\ UNCHANGED exitStatus
    /\ UNCHANGED <<rmIn, rmService, upload, uploadReqs, reported, rmPeak>>

\* shards.map(removeShard): client.capability.store.remove(shard) is called
\* for the shards, each wrapped in oraPromise
RmFanOut ==
    /\ UNCHANGED notRemove
    /\ rmPc = "fanout"
    /\ ToIssue(shardState) # {} \/ DOMAIN shardState = {}
    /\ shardState' = [i \in DOMAIN shardState |->
                         IF i \in ToIssue(shardState) THEN "pending" ELSE shardState[i]]
    /\ rmPeak' = IF InFlightShards(shardState') > rmPeak
                 THEN InFlightShards(shardState') ELSE rmPeak
    /\ rmPc' = IF \E i \in DOMAIN shardState' : shardState'[i] = "idle"
               THEN "fanout" ELSE "awaitShards"
    /\ UNCHANGED <<rmIn, rmService, upload, uploadReqs, reported, rmLog, exitStatus>>

\* one store/remove request settles; oraPromise prints its successText or
\* failText and settles the same way
RmShardSettles ==
    /\ UNCHANGED notRemove
    /\ rmPc \in {"fanout", "awaitShards"}
    /\ \E i \in DOMAIN shardState :
         /\ shardState[i] = "pending"
         /\ LET ok == i \notin rmService.fails
            IN /\ shardState' = [shardState EXCEPT
                                   ![i] = IF ok THEN "fulfilled" ELSE "rejected"]
               /\ reported' = Append(reported,
                     [shard |-> i, text |-> IF ok THEN "removed" ELSE "failed"])
    /\ UNCHANGED <<rmPc, rmIn, rmService, upload, uploadReqs, rmLog, exitStatus, rmPeak>>

\* await Promise.allSettled(...) resumes; process.exit(1) if some rejected
RmDecide ==
    /\ UNCHANGED notRemove
    /\ rmPc = "awaitShards"
    /\ AllSettled(shardState)
    /\ IF SomeRejected(shardState)
       THEN rmPc' = "exited" /\ exitStatus' = <<1>>
       ELSE rmPc' = "done" /\ exitStatus' = <<0>>
    /\ UNCHANGED <<rmIn, rmService, upload, uploadReqs, shardState, reported,
                   rmLog, rmPeak>>

NextRemove ==
    \/ RmParse
    \/ RmUploadRemoveCall
    \/ RmUploadRemoveThrows
    \/ RmUploadRemoveReturns
    \/ RmChecks
    \/ RmFanOut
    \/ RmShardSettles
    \/ RmDecide

SpecRemove == InitRemove /\ [][NextRemove]_vars

\* ------------------------------------------------------ createDelegation
\* The inputs: whether a current space is set, the audience DID parses, the
\* ability list is non-empty and client.createDelegation succeeds; the
\* destination; the number of blocks of delegation.export(); and the block
\* (0: none) that writer.put rejects.
ExportInputs ==
    { x \in [space : BOOLEAN, audience : BOOLEAN, abilities : BOOLEAN,
             issues : BOOLEAN, output : {"file", "stdout"},
             blocks : 1..MaxBlocks, bad : 0..MaxBlocks] : x.bad <= x.blocks }

\* the frames CarWriter encodes into `out`
\* CarWriter.create() is called without roots
HeaderFrame == [kind |-> "header", roots |-> <<>>, cid |-> 0]
\* (faulty variant: the frame of a block does not carry its identifier)
BlockFrame_NoCid(b) == [kind |-> "block", roots |-> <<>>, cid |-> 0]
BlockFrame(b) == [kind |-> "block", roots |-> <<>>, cid |-> b]

\* (faulty variant: the put is not awaited)
AfterPutCall_NoAwait == "loop"
\* `await writer.put(block)`: where control is once put has been called
AfterPutCall == "awaitPut"

\* puts called and not yet settled
PutsInFlight == Len(putCalls) - Len(putDone)

InitExport ==
    /\ IdleList
    /\ IdleRemove
    /\ IdleUsage
    /\ exPc = "start"
    /\ exIn \in ExportInputs
    /\ writerState = "none"
    /\ closeCalls = 0
    /\ putCalls = <<>>
    /\ putDone = <<>>
    /\ outQueue = <<>>
    /\ destState = "none"
    /\ destBytes = <<>>

\* from getClient to the delegation being issued
ExPrepare ==
    /\ UNCHANGED notExport
    /\ exPc = "start"
    /\ exPc' = IF ~exIn.space \/ ~exIn.audience THEN "threw"
               ELSE IF ~exIn.abilities THEN "exited"
               ELSE IF ~exIn.issues THEN "threw"
               ELSE "create"
    /\ UNCHANGED <<exIn, writerState, closeCalls, putCalls, putDone, outQueue,
                   destState, destBytes>>

\* CarWriter.create(), the destination, Readable.from(out).pipe(dest)
ExCreate ==
    /\ UNCHANGED notExport
    /\ exPc = "create"
    /\ writerState' = "open"
    /\ outQueue' = <<HeaderFrame>>
    /\ destState' = "open"
    /\ exPc' = "loop"
    /\ UNCHANGED <<exIn, closeCalls, putCalls, putDone, destBytes>>

\* the pipe moves the next chunk of `out` to the destination
ExPipe ==
    /\ UNCHANGED notExport
    /\ destState = "open"
    /\ outQueue # <<>>
    /\ destBytes' = Append(destBytes, Head(outQueue))
    /\ outQueue' = Tail(outQueue)
    /\ UNCHANGED <<exPc, exIn, writerState, closeCalls, putCalls, putDone, destState>>

\* writer.put(block) is called for the next block of delegation.export()
ExPutCall ==
    /\ UNCHANGED notExport
    /\ exPc = "loop"
    /\ Len(putCalls) < exIn.blocks
    /\ LET b == Len(putCalls) + 1
       IN /\ putCalls' = Append(putCalls, b)
          /\ outQueue' = IF b = exIn.bad THEN outQueue
                         ELSE Append(outQueue, BlockFrame(b))
    /\ exPc' = AfterPutCall
    /\ UNCHANGED <<exIn, writerState, closeCalls, putDone, destState, destBytes>>

\* the oldest put in flight resolves, once the reader has drained `out`
ExPutDone ==
    /\ UNCHANGED notExport
    /\ PutsInFlight > 0
    /\ exPc \in {"loop", "awaitPut", "awaitClose"}
    /\ putCalls[Len(putDone) + 1] # exIn.bad
    /\ outQueue = <<>>
    /\ putDone' = Append(putDone, putCalls[Len(putDone) + 1])
    /\ exPc' = IF exPc = "awaitPut" THEN "loop" ELSE exPc
    /\ UNCHANGED <<exIn, writerState, closeCalls, putCalls, outQueue,
                   destState, destBytes>>

\* the put of a block the writer refuses rejects: createDelegation raises
ExPutRejects ==
    /\ UNCHANGED notExport
    /\ PutsInFlight > 0
    /\ exPc \in {"loop", "awaitPut", "awaitClose"}
    /\ putCalls[Len(putDone) + 1] = exIn.bad
    /\ putDone' = Append(putDone, putCalls[Len(putDone) + 1])
    /\ exPc' = "threw"
    /\ UNCHANGED <<exIn, writerState, closeCalls, putCalls, outQueue,
                   destState, destBytes>>

\* writer.close() is called after the loop
ExCloseCall ==
    /\ UNCHANGED notExport
    /\ exPc = "loop"
    /\ Len(putCalls) = exIn.blocks
    /\ closeCalls' = closeCalls + 1
    /\ exPc' = "awaitClose"
    /\ UNCHANGED <<exIn, writerState, putCalls, putDone, outQueue, destState, destBytes>>

\* close waits for the pending puts, then ends `out`
ExWriterEnds ==
    /\ UNCHANGED notExport
    /\ exPc = "awaitClose"
    /\ writerState = "open"
    /\ PutsInFlight = 0
    /\ writerState' = "ended"
    /\ UNCHANGED <<exPc, exIn, closeCalls, putCalls, putDone, outQueue,
                   destState, destBytes>>

\* the awaited close resolves once the reader has reached the end of `out`
ExCloseDone ==
    /\ UNCHANGED notExport
    /\ exPc = "awaitClose"
    /\ writerState = "ended"
    /\ outQueue = <<>>
    /\ exPc' = "returned"
    /\ UNCHANGED <<exIn, writerState, closeCalls, putCalls, putDone, outQueue,
                   destState, destBytes>>

\* the pipe ends a file destination when `out` has ended (never stdout)
ExDestEnd ==
    /\ UNCHANGED notExport
    /\ destState = "open"
    /\ writerState = "ended"
    /\ outQueue = <<>>
    /\ exIn.output = "file"
    /\ destState' = "ended"
    /\ UNCHANGED <<exPc, exIn, writerState, closeCalls, putCalls, putDone,
                   outQueue, destBytes>>

NextExport ==
    \/ ExPrepare
    \/ ExCreate
    \/ ExPipe
    \/ ExPutCall
    \/ ExPutDone
    \/ ExPutRejects
    \/ ExCloseCall
    \/ ExWriterEnds
    \/ ExCloseDone
    \/ ExDestEnd

SpecExport == InitExport /\ [][NextExport]_vars

\* ----------------------------------------------------------- usageReport
\* The service the traversal reads: `accounts` accounts, each with `subs`
\* subscriptions, each with `consumers` consumer spaces, each usage report
\* with `entries` entries. `shape` is what a report entry looks like:
\* "plain" (provider, space, size), "withAccount" (an account field of its
\* own as well), "otherSpace" (a space field that is not the one asked for).
SizeBases == {0, 1000}
UsageInputs ==
    [json : BOOLEAN, accounts : 0..MaxAccounts, subs : 0..MaxSubs,
     consumers : 0..MaxConsumers, entries : 0..MaxEntries, size : SizeBases,
     shape : {"plain", "withAccount", "otherSpace"}]

AccountDid(a) == <<"account", a>>
SpaceDid(a, sub, c) == <<"space", a, sub, c>>
ForeignDid == <<"foreign">>

\* entry r of the report the service returns for `space`
ReportEntry(space, r) ==
    [hasAccount |-> usIn.shape = "withAccount",
     account |-> ForeignDid,
     provider |-> <<"provider", r>>,
     space |-> IF usIn.shape = "otherSpace" THEN ForeignDid ELSE space,
     size |-> usIn.size + r]

\* { account: account.did(), ...report }
YieldedRecord(account, report) ==
    [account |-> IF report.hasAccount THEN report.account ELSE account,
     provider |-> report.provider,
     space |-> report.space,
     size |-> report.size]

\* total += size.final
AddToTotal(t, size) == t + size

\* (faulty variant: the last entry of a report is dropped)
MoreEntries_SkipLast(r, n) == r + 1 < n
\* for (const [, report] of Object.entries(result)): one more entry?
MoreEntries(r, n) == r < n

\* (faulty variant: the entries of a report are taken last to first)
EntryAt_Reversed(r, n) == n - r
\* Object.entries(result): the entry taken after r entries, in the order of
\* the report
EntryAt(r, n) == r + 1

\* (faulty variant: the failing branch is skipped and the traversal goes on)
AfterFailure_Swallow(pc) == IF pc = "awaitSubs" THEN "accounts" ELSE "consumers"
\* a rejected await is not caught: where control is after it
AfterFailure(pc) == "threw"

InitUsage ==
    /\ IdleList
    /\ IdleRemove
    /\ IdleExport
    /\ usPc = "accounts"
    /\ usIn \in UsageInputs
    /\ ai = 0 /\ si = 0 /\ ci = 0 /\ ri = 0
    /\ usReqs = <<>>
    /\ usReplies = <<>>
    /\ usInFlight = 0
    /\ yielded = <<>>
    /\ usOut = <<>>
    /\ total = 0

\* for (const account of Object.values(client.accounts())): the next
\* account's client.capability.subscription.list(account.did()) is called
UsSubsCall ==
    /\ UNCHANGED notUsage
    /\ usPc = "accounts"
    /\ ai < usIn.accounts
    /\ ai' = ai + 1
    /\ usReqs' = Append(usReqs, [kind |-> "subscriptions", of |-> AccountDid(ai + 1)])
    /\ usInFlight' = usInFlight + 1
    /\ usPc' = "awaitSubs"
    /\ UNCHANGED <<usIn, si, ci, ri, usReplies, yielded, usOut, total>>

\* the subscription listing resolves
UsSubsReturns ==
    /\ UNCHANGED notUsage
    /\ usPc = "awaitSubs"
    /\ usInFlight' = usInFlight - 1
    /\ usReplies' = Append(usReplies, [ok |-> TRUE, out |-> <<>>])
    /\ si' = 0
    /\ usPc' = "subs"
    /\ UNCHANGED <<usIn, ai, ci, ri, usReqs, yielded, usOut, total>>

\* the subscription listing, or a usage report, rejects: the generator and
\* the for-await of usageReport raise
UsRequestFails ==
    /\ UNCHANGED notUsage
    /\ usPc \in {"awaitSubs", "awaitReport"}
    /\ usInFlight' = usInFlight - 1
    /\ usReplies' = Append(usReplies, [ok |-> FALSE, out |-> usOut])
    /\ usPc' = AfterFailure(usPc)
    /\ UNCHANGED <<usIn, ai, si, ci, ri, usReqs, yielded, usOut, total>>

\* for (const { consumers } of subscriptions.results)
UsNextSub ==
    /\ UNCHANGED notUsage
    /\ usPc = "subs"
    /\ IF si < usIn.subs
       THEN si' = si + 1 /\ ci' = 0 /\ usPc' = "consumers"
       ELSE usPc' = "accounts" /\ UNCHANGED <<si, ci>>
    /\ UNCHANGED <<usIn, ai, ri, usReqs, usReplies, usInFlight, yielded, usOut, total>>

\* for (const space of consumers): client.capability.usage.report(space,
\* period) is called
UsReportCall ==
    /\ UNCHANGED notUsage
    /\ usPc = "consumers"
    /\ IF ci < usIn.consumers
       THEN /\ ci' = ci + 1
            /\ usReqs' = Append(usReqs, [kind |-> "usage", of |-> SpaceDid(ai, si, ci + 1)])
            /\ usInFlight' = usInFlight + 1
            /\ usPc' = "awaitReport"
       ELSE usPc' = "subs" /\ UNCHANGED <<ci, usReqs, usInFlight>>
    /\ UNCHANGED <<usIn, ai, si, ri, usReplies, yielded, usOut, total>>

\* the usage report resolves
UsReportReturns ==
    /\ UNCHANGED notUsage
    /\ usPc = "awaitReport"
    /\ usInFlight' = usInFlight - 1
    /\ usReplies' = Append(usReplies, [ok |-> TRUE, out |-> <<>>])
    /\ ri' = 0
    /\ usPc' = "entries"
    /\ UNCHANGED <<usIn, ai, si, ci, usReqs, yielded, usOut, total>>

\* one entry of the report is yielded; the body of the for-await in
\* usageReport prints it and adds its size to the total
UsYield ==
    /\ UNCHANGED notUsage
    /\ usPc = "entries"
    /\ IF MoreEntries(ri, usIn.entries)
       THEN LET rec == YieldedRecord(AccountDid(ai),
                                     ReportEntry(SpaceDid(ai, si, ci),
                                                 EntryAt(ri, usIn.entries)))
            IN /\ ri' = ri + 1
               /\ yielded' = Append(yielded, rec)
               /\ usOut' = Append(usOut,
                     [kind |-> IF usIn.json THEN "json" ELSE "text",
                      rec |-> <<rec>>, value |-> rec.size])
               /\ total' = AddToTotal(total, rec.size)
               /\ UNCHANGED usPc
       ELSE usPc' = "consumers" /\ UNCHANGED <<ri, yielded, usOut, total>>
    /\ UNCHANGED <<usIn, ai, si, ci, usReqs, usReplies, usInFlight>>

\* the generator is exhausted: the total line, unless --json
UsFinish ==
    /\ UNCHANGED notUsage
    /\ usPc = "accounts"
    /\ ai = usIn.accounts
    /\ usOut' = IF usIn.json THEN usOut
                ELSE Append(usOut, [kind |-> "total", rec |-> <<>>, value |-> total])
    /\ usPc' = "done"
    /\ UNCHANGED <<usIn, ai, si, ci, ri, usReqs, usReplies, usInFlight, yielded, total>>

NextUsage ==
    \/ UsSubsCall
    \/ UsSubsReturns
    \/ UsRequestFails
    \/ UsNextSub
    \/ UsReportCall
    \/ UsReportReturns
    \/ UsYield
    \/ UsFinish

SpecUsage == InitUsage /\ [][NextUsage]_vars

\* ------------------------------------------------- list: the claims
\* The listing an exhaustive reader of the service would see: the request
\* cursors met by following every page's cursor from the first request.
RECURSIVE WalkFrom(_, _, _)
WalkFrom(s, k, fuel) ==
    IF s[k].cursor = Undefined \/ fuel = 0 THEN <<k>>
    ELSE <<k>> \o WalkFrom(s, s[k].cursor, fuel - 1)

RECURSIVE EndsWithin(_, _, _)
EndsWithin(s, k, fuel) ==
    \/ s[k].cursor = Undefined
    \/ fuel > 0 /\ EndsWithin(s, s[k].cursor, fuel - 1)

Fuel == Cardinality(RequestCursors)
ServerWalk == WalkFrom(server, Undefined, Fuel)
\* a finite page sequence: all pages but the last carry a defined cursor,
\* the last one carries undefined
FiniteListing == EndsWithin(server, Undefined, Fuel)
\* ... and all pages but the last are non-empty with a truthy cursor
NonEmptyListing ==
    /\ FiniteListing
    /\ \A i \in 1..(Len(ServerWalk) - 1) :
          /\ server[ServerWalk[i]].n > 0
          /\ Truthy(server[ServerWalk[i]].cursor)

AllUploads ==
    Flatten([i \in 1..Len(ServerWalk) |->
               PageResults(ServerWalk[i], server[ServerWalk[i]].n)])
PrintedUploads ==
    Flatten([i \in 1..Len(stdout) |->
               IF stdout[i].kind = "uploads" THEN stdout[i].lines ELSE <<>>])

ListEnded == listPc \in {"done", "threw"}
ListFailed == listPc = "threw"

\* every cursor the service hands out is undefined or a non-empty token
TokenCursorsOnly == \A k \in RequestCursors : server[k].cursor # EmptyString

EmptyWithCursor(r) == r.present /\ Len(r.results) = 0 /\ r.cursor # Undefined
EmptyWithToken(r) == EmptyWithCursor(r) /\ r.cursor \in CursorTokens
ItemsWithCursor(r) == r.present /\ Len(r.results) > 0 /\ Truthy(r.cursor)
\* the fetch following response i has been issued with response i's cursor,
\* or is the next thing list does
FollowedUp(i) ==
    \/ Len(requests) > i /\ requests[i + 1] = responses[i].cursor
    \/ Len(requests) = i /\ listPc = "request"

EndlessEmptyServer ==
    \A k \in RequestCursors : server[k].n = 0 /\ server[k].cursor # Undefined

\* C10: against a service that answers every fetch with an empty page and a
\* defined cursor, list stops after its first fetch: it never issues a
\* second one and always has a step to take until it has ended.
C10_NoInfinitePolling ==
    EndlessEmptyServer =>
        /\ Len(requests) <= 1
        /\ ListEnded \/ ENABLED NextList

C10_Witness ==
    /\ EndlessEmptyServer
    /\ Truthy(server[Undefined].cursor)
    /\ listPc = "done"
    /\ Len(requests) = 1

\* C11: once a fetch of list has failed (rejected, or answered with no
\* response), list has raised: that fetch is the last one issued (no retry,
\* no further fetch), nothing is in flight and list takes no further step.
C11_FetchFailurePropagates ==
    \A i \in 1..Len(responses) :
        ~responses[i].present =>
            /\ i = Len(responses)
            /\ i = Len(requests)
            /\ listPc = "threw"
            /\ inFlight = 0
            /\ ~ENABLED NextList

C11_Witness ==
    /\ listPc = "threw"
    /\ Len(requests) >= 2
    /\ responses[Len(responses)].cursor = "missing"
    /\ Len(PrintedUploads) >= 1

\* ------------------------------------------------- remove: the claims
RmEnded == rmPc \in {"done", "exited"}
\* the upload removal has answered and --shards is set
RmShardsRun == rmIn.shards /\ rmIn.cidValid /\ uploadReqs = 1 /\ ~rmService.throws
ShardIds == DOMAIN shardState
ReportsOf(i) == {j \in 1..Len(reported) : reported[j].shard = i}
FailedShards == {i \in ShardIds : shardState[i] = "rejected"}

\* C2: with --shards, once the upload removal has answered, remove ends
\* with exit status 1 if and only if at least one shard removal failed,
\* and with status 0 when all shard removals succeeded.
C2_ExitOneIffShardFailed ==
    (RmShardsRun /\ RmEnded) =>
        /\ exitStatus = <<1>> <=> FailedShards # {}
        /\ FailedShards = {} => exitStatus = <<0>>
        /\ FailedShards = rmService.fails \cap (1..upload.n)

C2_Witness ==
    /\ RmShardsRun /\ RmEnded
    /\ exitStatus = <<1>>
    /\ Cardinality(FailedShards) = 1
    /\ Cardinality(ShardIds) >= 3

\* C3: when remove with --shards decides its status, every shard of the
\* upload has settled and has been reported exactly once, with its own
\* outcome, whatever the other shards did.
C3_AllSettledAndReportedOnce ==
    (RmShardsRun /\ RmEnded /\ upload.root /\ upload.shards # Undefined) =>
        /\ ShardIds = 1..upload.n
        /\ \A i \in 1..upload.n :
              /\ shardState[i] \in {"fulfilled", "rejected"}
              /\ Cardinality(ReportsOf(i)) = 1
              /\ \A j \in ReportsOf(i) :
                    reported[j].text = "failed" <=> i \in rmService.fails

C3_Witness ==
    /\ RmShardsRun /\ RmEnded
    /\ upload.n >= 3
    /\ Len(reported) = upload.n
    /\ reported[1].text = "failed"
    /\ reported[2].text = "removed"

\* C8: every shard removal is issued before any of them completes, and the
\* outcomes and the status do not depend on the order of completion.
C8_AllIssuedBeforeAnyCompletes ==
    /\ (\E i \in ShardIds : shardState[i] \in {"fulfilled", "rejected"}) =>
          /\ \A i \in ShardIds : shardState[i] # "idle"
          /\ rmPeak = Cardinality(ShardIds)
    /\ (RmEnded /\ ShardIds # {}) =>
          /\ FailedShards = rmService.fails
          /\ exitStatus = IF rmService.fails = {} THEN <<0>> ELSE <<1>>

\* all requests in flight at once, then completed in reverse input order
C8_Witness ==
    /\ RmEnded
    /\ Cardinality(ShardIds) >= 3
    /\ rmPeak = Cardinality(ShardIds)
    /\ Len(reported) = Cardinality(ShardIds)
    /\ \A j \in 1..(Len(reported) - 1) : reported[j].shard > reported[j + 1].shard

\* the upload removal has answered
RmAnswered == rmIn.cidValid /\ uploadReqs = 1 /\ ~rmService.throws /\ rmPc \notin {"uploadRemove", "awaitUpload"}

\* C12: remove ends the process with a non-zero exit status whenever the
\* root CID is malformed or the upload does not exist (the upload removal
\* answers without a root), with and without --shards.
C12_NonZeroExitOnBadInput ==
    (RmEnded /\ (~rmIn.cidValid \/ (RmAnswered /\ ~upload.root))) =>
        (exitStatus # <<>> /\ exitStatus # <<0>>)

\* C19: with --shards and an upload whose shard list is empty, remove issues
\* no shard removal request, reports no shard outcome, does not announce a
\* removal, and ends with exit status 0; and it does end.
C19_EmptyShardSetIsNoOp ==
    (rmIn.shards /\ RmAnswered /\ upload.root /\ upload.shards # Undefined
       /\ upload.n = 0 /\ rmPc # "checks") =>
        /\ RmEnded
        /\ shardState = <<>>
        /\ rmPeak = 0
        /\ reported = <<>>
        /\ rmLog = <<"no shards to remove">>
        /\ exitStatus = <<0>>

C19_Witness ==
    /\ rmIn.shards /\ RmAnswered /\ upload.root
    /\ upload.shards # Undefined /\ upload.n = 0
    /\ rmPc = "done"
    /\ exitStatus = <<0>>

\* C20: without --shards, remove issues the upload-record removal (once, if
\* the CID parses) and never a shard removal, whatever shards the removed
\* upload lists.
C20_NoShardRemovalWithoutFlag ==
    ~rmIn.shards =>
        /\ shardState = <<>>
        /\ rmPeak = 0
        /\ reported = <<>>
        /\ uploadReqs <= 1
        /\ (RmEnded /\ rmIn.cidValid) => uploadReqs = 1
        /\ RmAnswered => RmEnded \/ rmPc = "checks"

C20_Witness ==
    /\ ~rmIn.shards
    /\ rmPc = "done"
    /\ uploadReqs = 1
    /\ upload.root /\ upload.n >= 2

\* ----------------------------------------- createDelegation: the claims
ExLeft == exPc \in {"returned", "threw"}
WriterCreated == writerState # "none"
\* the ids of the block frames of a chunk sequence, in order
RECURSIVE BlockIds(_)
BlockIds(q) ==
    IF q = <<>> THEN <<>>
    ELSE (IF Head(q).kind = "block" THEN <<Head(q).cid>> ELSE <<>>) \o BlockIds(Tail(q))

\* C5: on every exit path of the export (normal return, or an error raised
\* by a block write or by the close) the archive writer has been closed and
\* the destination stream has been ended when the function returns or raises.
C5_ClosedOnEveryExit ==
    (ExLeft /\ WriterCreated) => (writerState = "ended" /\ destState = "ended")

\* C9: the export calls writer.put for the blocks in input order, has at
\* most one put in flight, calls writer.close at most once and only after
\* every block's put has completed, and when it returns it has closed the
\* writer exactly once with all blocks written in input order.
C9_SequentialPutsThenClose ==
    /\ \A i \in 1..Len(putCalls) : putCalls[i] = i
    /\ PutsInFlight <= 1
    /\ closeCalls <= 1
    /\ closeCalls = 1 => Len(putDone) = exIn.blocks
    /\ BlockIds(destBytes \o outQueue) = [i \in 1..Len(BlockIds(destBytes \o outQueue)) |-> i]
    /\ exPc = "returned" =>
          /\ closeCalls = 1
          /\ writerState = "ended"
          /\ BlockIds(destBytes) = [i \in 1..exIn.blocks |-> i]

C9_Witness ==
    /\ exPc = "returned"
    /\ exIn.blocks >= 3
    /\ Len(putDone) = exIn.blocks
    /\ closeCalls = 1

\* ------------------------------------------------ usageReport: the claims
RECURSIVE SumSizes(_)
SumSizes(recs) == IF recs = <<>> THEN 0 ELSE Head(recs).size + SumSizes(Tail(recs))

\* C6: with N accounts of M subscriptions of K consumer spaces, R entries
\* per usage report and no call failing, the traversal yields exactly
\* N*M*K*R records, and the total of usageReport is the sum of the sizes of
\* the yielded records (also on the way there).
C6_CountAndTotal ==
    /\ total = SumSizes(yielded)
    /\ usPc = "done" =>
          /\ Len(yielded) = usIn.accounts * usIn.subs * usIn.consumers * usIn.entries
          /\ ~usIn.json => usOut[Len(usOut)] =
                               [kind |-> "total", rec |-> <<>>, value |-> SumSizes(yielded)]

C6_Witness ==
    /\ usPc = "done"
    /\ usIn.accounts >= 2 /\ usIn.subs >= 2 /\ usIn.consumers >= 2 /\ usIn.entries >= 2
    /\ Len(yielded) >= 16
    /\ total > 0

\* C7: once a subscription listing or a usage report has failed, the
\* traversal is over: the failed request is the last one issued, nothing is
\* in flight, the error has propagated, and the output is exactly what had
\* been output when the failure happened.
C7_FailFast ==
    \A i \in 1..Len(usReplies) :
        ~usReplies[i].ok =>
            /\ i = Len(usReqs)
            /\ i = Len(usReplies)
            /\ usPc = "threw"
            /\ usInFlight = 0
            /\ usOut = usReplies[i].out
            /\ Len(usOut) = Len(yielded)
            /\ ~ENABLED NextUsage

C7_Witness ==
    /\ usPc = "threw"
    /\ Len(yielded) >= 2
    /\ usReqs[Len(usReqs)].kind = "usage"
    /\ ai < usIn.accounts

\* C15: a response whose cursor is undefined is the last one: no fetch is
\* issued after it, whether its page is empty or not.
C15_UndefinedCursorEndsListing ==
    \A i \in 1..Len(responses) :
        (responses[i].present /\ responses[i].cursor = Undefined) =>
            /\ Len(requests) = i
            /\ listPc \in {"after", "done"}
            /\ inFlight = 0

C15_Witness ==
    /\ listPc = "done"
    /\ Len(responses) = 2
    /\ responses[2].present
    /\ responses[2].cursor = Undefined
    /\ Len(responses[2].results) > 0
    /\ Len(requests) = 2

ZeroUploads == \A k \in RequestCursors : server[k].n = 0
NoUploadsNotice ==
    <<[kind |-> "notice", lines |-> <<"No uploads in space">>],
      [kind |-> "notice", lines |-> <<"Try out w3 up">>]>>

\* C18: with zero uploads in the space, list prints no upload record; once
\* it is done its output is the notice when --json is not set and nothing at
\* all when --json is set.
C18_EmptySpaceNotice ==
    ZeroUploads =>
        /\ PrintedUploads = <<>>
        /\ listPc # "done" => stdout = <<>>
        /\ (listPc = "done" /\ ~listOpts.json) => stdout = NoUploadsNotice
        /\ (listPc = "done" /\ listOpts.json) => stdout = <<>>

C18_Witness ==
    /\ ZeroUploads
    /\ listPc = "done"
    /\ ~listOpts.json
    /\ stdout = NoUploadsNotice

\* the first response is an empty page without a cursor
FirstEmptyAndFinal ==
    /\ Len(responses) >= 1
    /\ responses[1].present
    /\ responses[1].results = <<>>
    /\ responses[1].cursor = Undefined

\* C21: list issues a first fetch before anything else: the fetch is due as
\* long as none was issued, and list is nowhere else without one; and when
\* the first response is an empty page without a cursor, that fetch is the
\* only one, nothing is thrown, and list goes on to its end.
C21_OneFetchOnEmptySpace ==
    /\ requests = <<>> => (listPc = "request" /\ ENABLED ListRequest)
    /\ ListEnded => Len(requests) >= 1
    /\ FirstEmptyAndFinal =>
          /\ Len(requests) = 1
          /\ Len(responses) = 1
          /\ inFlight = 0
          /\ listPc \in {"after", "done"}
          /\ listPc = "after" => ENABLED ListFinish

C21_Witness ==
    /\ FirstEmptyAndFinal
    /\ listPc = "done"
    /\ Len(requests) = 1

\* the "No uploads in space" notice is on the output
NoticePrinted ==
    \E i \in 1..Len(stdout) :
        stdout[i].kind = "notice" /\ stdout[i].lines = <<"No uploads in space">>

\* C24: when the pages of the service hold at least one upload, list never
\* prints the "No uploads in space" notice, whatever the page sequence, an
\* empty first page with a defined cursor included. Stated over the finite
\* listings whose cursors are non-empty tokens.
C24_NoNoticeWhenUploadsExist ==
    (FiniteListing /\ TokenCursorsOnly /\ AllUploads # <<>>) => ~NoticePrinted

\* some shard removal has been issued, is running or has been reported
ShardRequestSeen == shardState # <<>> \/ rmPeak > 0 \/ reported # <<>>

\* C23: in remove, a shard removal is issued only once the upload removal
\* has answered with an upload: a malformed root CID issues no request at
\* all; a failed upload removal ends the process with no shard removal; and
\* after a shard failure the upload removal remains the only request made
\* about the upload record, whose answer is kept as it was.
C23_ShardsOnlyAfterUploadRemoved ==
    /\ uploadReqs <= 1
    /\ ~rmIn.cidValid => (uploadReqs = 0 /\ ~ShardRequestSeen)
    /\ ShardRequestSeen => (RmAnswered /\ upload.root /\ rmIn.shards)
    /\ rmService.throws =>
          /\ ~ShardRequestSeen
          /\ (uploadReqs = 1 /\ rmPc # "awaitUpload") =>
                (rmPc = "exited" /\ exitStatus = <<1>>)
    /\ FailedShards # {} =>
          /\ uploadReqs = 1
          /\ upload = rmService.upload
          /\ rmLog = <<"removing shards">>

C23_Witness ==
    /\ rmPc = "exited"
    /\ exitStatus = <<1>>
    /\ FailedShards # {}
    /\ Len(reported) = MaxShards
    /\ uploadReqs = 1

\* the blocks of delegation.export(), in order
ExportedBlocks == [i \in 1..exIn.blocks |-> i]
\* the archive of a block sequence: the header, then one frame per block
EncodeArchive(blocks) ==
    <<HeaderFrame>> \o [i \in 1..Len(blocks) |-> BlockFrame(blocks[i])]
\* reading an archive back: the header comes first and is the only one, and
\* every frame after it gives a block
DecodeArchive(q) ==
    IF q = <<>> \/ Head(q).kind # "header"
       \/ \E i \in 2..Len(q) : q[i].kind # "block"
    THEN <<"invalid">>
    ELSE BlockIds(Tail(q))
IsPrefix(p, q) == Len(p) <= Len(q) /\ \A i \in 1..Len(p) : p[i] = q[i]

C14_ArchiveNamesRoot ==
    \A i \in 1..Len(destBytes) :
        destBytes[i].kind = "header" =>
            /\ destBytes[i].roots # <<>>
            /\ \A k \in 1..Len(destBytes[i].roots) :
                  destBytes[i].roots[k] \in 1..exIn.blocks

\* C13: every record the traversal yields has as account the DID of the
\* account being traversed and as space the consumer space the report was
\* requested for, whatever the report entry of the service contains.
C13_TaggedWithAccountAndSpace ==
    (usPc = "entries" /\ ri > 0) =>
        /\ yielded[Len(yielded)].account = AccountDid(ai)
        /\ yielded[Len(yielded)].space = SpaceDid(ai, si, ci)

\* the usage reports answered so far
OkReports ==
    Cardinality({i \in 1..Len(usReplies) : usReplies[i].ok /\ usReqs[i].kind = "usage"})
\* the j-th record of the whole traversal: accounts, then subscriptions,
\* then consumers, then report entries
ExpectedRecord(j) ==
    LET R == usIn.entries
        K == usIn.consumers
        M == usIn.subs
        r == ((j - 1) % R) + 1
        c == (((j - 1) \div R) % K) + 1
        sub == (((j - 1) \div (R * K)) % M) + 1
        a == ((j - 1) \div (R * K * M)) + 1
    IN YieldedRecord(AccountDid(a), ReportEntry(SpaceDid(a, sub, c), r))

\* C17: the traversal is sequential and lazy: at most one request is in
\* flight; when a request is issued or pending, every entry of every report
\* answered so far has been yielded, printed and added to the total;
\* and the records come out in traversal order (account, subscription,
\* consumer, report entry), printed in the order they are yielded.
C17_SequentialAndLazy ==
    /\ usInFlight <= 1
    /\ usInFlight = Len(usReqs) - Len(usReplies)
    /\ usPc \notin {"entries", "idle"} => Len(yielded) = usIn.entries * OkReports
    /\ usPc = "entries" => Len(yielded) = usIn.entries * (OkReports - 1) + ri
    /\ \A j \in 1..Len(yielded) :
          /\ yielded[j] = ExpectedRecord(j)
          /\ usOut[j].rec = <<yielded[j]>>
    /\ total = SumSizes(yielded)

C17_Witness ==
    /\ usPc = "awaitReport"
    /\ usInFlight = 1
    /\ ai = 2 /\ si = 2 /\ ci = 2
    /\ usIn.entries >= 2
    /\ Len(yielded) = usIn.entries * 7

====
